---- MODULE Spec2Model ----
(***************************************************************************)
(* Model of bin/resampler.py: the SQS polling loop process_queue, the      *)
(* per-job pipeline download_image -> generate (resize + guetzli) ->        *)
(* upload / upload_s3 -> delete_message, and the pure function scale_dim.   *)
(***************************************************************************)
EXTENDS Integers, Sequences, FiniteSets, TLC

\* ------------------------------------------------------------------------
\* Bounds of the model
\* ------------------------------------------------------------------------
MaxDeliveries == 2      \* receives of one message that the model follows
MaxBatch == 2           \* messages returned by one receive_message
MaxDim == 24            \* widths and heights tried on scale_dim alone
MaxN == 16              \* max_size values tried on scale_dim alone

\* ------------------------------------------------------------------------
\* IEEE-754 double arithmetic of scale_dim, computed on integers
\* ------------------------------------------------------------------------
RECURSIVE Pow2(_)
Pow2(e) == IF e <= 0 THEN 1 ELSE 2 * Pow2(e - 1)

RECURSIVE PowMod(_, _)
\* 2^k mod m
PowMod(k, m) == IF k <= 0 THEN 1 % m ELSE (2 * PowMod(k - 1, m)) % m

RECURSIVE FLog2Pos(_, _)
\* for a >= b: the largest E >= 0 with b * 2^E <= a
FLog2Pos(a, b) == IF a >= 2 * b THEN 1 + FLog2Pos(a, 2 * b) ELSE 0

RECURSIVE FLog2Neg(_, _)
\* for a < b: the smallest s > 0 with a * 2^s >= b
FLog2Neg(a, b) == IF 2 * a >= b THEN 1 ELSE 1 + FLog2Neg(2 * a, b)

\* the binary exponent E of the quotient a / b: 2^E <= a/b < 2^(E+1)
FLog2(a, b) == IF a >= b THEN FLog2Pos(a, b) ELSE 0 - FLog2Neg(a, b)

\* ratio = float(n) / float(d) is the 53-bit significand m scaled by 2^-k,
\* k = 52 - E.  m * d = n * 2^k + r with |r| <= d/2 (round to nearest, ties
\* to even).  RatioRem is (n * 2^k) mod d, RatioBelow tells r < 0, that is
\* the stored ratio is strictly below the exact quotient n / d.
RatioK(n, d) == 52 - FLog2(n, d)
RatioRem(n, d) == (n * PowMod(RatioK(n, d), d)) % d
RatioQuotOdd(n, d) ==
    LET r2 == (n * PowMod(RatioK(n, d), 2 * d)) % (2 * d)
    IN  ((r2 - RatioRem(n, d)) \div d) % 2 = 1
RatioBelow(n, d) ==
    LET rem == RatioRem(n, d)
    IN  /\ rem # 0
        /\ \/ 2 * rem < d
           \/ 2 * rem = d /\ ~RatioQuotOdd(n, d)

\* int(ratio * x) with ratio = float(n) / float(d): the exact product is
\* n*x/d + r*x/(d*2^k).  It differs from floor(n*x/d) only when n*x/d is an
\* integer I, the ratio was rounded down, and the product is more than half
\* a unit in the last place below I, so that it rounds to the double before I.
FloatMulInt(n, d, x) ==
    LET I    == (n * x) \div d
        f    == (n * x) % d
        eI   == FLog2(I, 1)
        isP2 == I = Pow2(eI)
        ex   == eI - FLog2(n, d) - 1 - (IF isP2 THEN 1 ELSE 0)
        lhs  == IF ex >= 0 THEN RatioRem(n, d) * x
                           ELSE RatioRem(n, d) * x * Pow2(0 - ex)
        rhs  == IF ex >= 0 THEN d * Pow2(ex) ELSE d
    IN  IF f # 0 \/ ~RatioBelow(n, d) THEN I
        ELSE IF lhs <= rhs THEN I ELSE I - 1

\* scale_dim with the ratio taken from the smaller side
scale_dim_smaller(w, h, max_size) ==
    LET d == IF w < h THEN w ELSE h
    IN  <<FloatMulInt(max_size, d, w), FloatMulInt(max_size, d, h)>>

scale_dim(w, h, max_size) ==
    LET d == IF w > h THEN w ELSE h
    IN  <<FloatMulInt(max_size, d, w), FloatMulInt(max_size, d, h)>>

\* ------------------------------------------------------------------------
\* Strings are sequences of tokens; a token is a run of characters that the
\* program never looks into, and ",", ".", "/" are tokens of their own.
\* ------------------------------------------------------------------------
RECURSIVE LastIndexOf(_, _)
\* the last position of token t in s, 0 when absent
LastIndexOf(s, t) ==
    IF s = <<>> THEN 0
    ELSE IF s[Len(s)] = t THEN Len(s)
    ELSE LastIndexOf(SubSeq(s, 1, Len(s) - 1), t)

RECURSIVE FirstIndexOf(_, _)
\* the first position of token t in s, 0 when absent
FirstIndexOf(s, t) ==
    IF s = <<>> THEN 0
    ELSE IF s[1] = t THEN 1
    ELSE LET r == FirstIndexOf(Tail(s), t) IN IF r = 0 THEN 0 ELSE r + 1

\* str.split(sep, 1): at most one split, the rest kept whole
SplitOnce(s, sep) ==
    LET i == FirstIndexOf(s, sep)
    IN  IF i = 0 THEN <<s>>
        ELSE <<SubSeq(s, 1, i - 1), SubSeq(s, i + 1, Len(s))>>

RECURSIVE Split(_, _)
\* str.split(sep): the list of the segments between the separators
Split(s, sep) ==
    LET i == FirstIndexOf(s, sep)
    IN  IF i = 0 THEN <<s>>
        ELSE <<SubSeq(s, 1, i - 1)>> \o Split(SubSeq(s, i + 1, Len(s)), sep)

\* str.lower() on the tokens the model uses
LowerToken(t) ==
    CASE t = "JPG" -> "jpg"
      [] t = "PNG" -> "png"
      [] t = "GIF" -> "gif"
      [] OTHER -> t
Lower(s) == [i \in 1..Len(s) |-> LowerToken(s[i])]

\* os.path.splitext(url)[1]: from the last dot of the last path component to
\* the end, empty when that component has no dot after its first character
splitext(url) ==
    LET sep == LastIndexOf(url, "/")
        dot == LastIndexOf(url, ".")
    IN  IF dot > sep /\ (\E j \in (sep + 1)..(dot - 1) : url[j] # ".")
        THEN SubSeq(url, dot, Len(url))
        ELSE <<>>

\* ------------------------------------------------------------------------
\* Files and images.  A file is described by what it holds: the source it
\* derives from, its format, colour mode, alpha state, dimensions, the
\* stage of the pipeline that wrote it and its length in bytes (in units
\* that only order the lengths).
\* ------------------------------------------------------------------------
NoFile == [src |-> "", kind |-> "", mode |-> "", alpha |-> "", w |-> 0, h |-> 0,
           stage |-> "none", bytes |-> 0]

ImgBig   == [src |-> "big", kind |-> "jpeg", mode |-> "RGB", alpha |-> "none",
             w |-> 2000, h |-> 1000, stage |-> "source",
             bytes |-> 9]
ImgMid   == [src |-> "mid", kind |-> "png", mode |-> "RGBA", alpha |-> "present",
             w |-> 500, h |-> 300, stage |-> "source",
             bytes |-> 9]
ImgSmall == [src |-> "small", kind |-> "jpeg", mode |-> "RGB", alpha |-> "none",
             w |-> 100, h |-> 150, stage |-> "source",
             bytes |-> 9]
ErrPage  == [src |-> "errpage", kind |-> "html", mode |-> "", alpha |-> "",
             w |-> 0, h |-> 0, stage |-> "source",
             bytes |-> 9]
ErrImg   == [src |-> "errimg", kind |-> "jpeg", mode |-> "RGB", alpha |-> "none",
             w |-> 400, h |-> 400, stage |-> "source",
             bytes |-> 9]

\* what requests.get(url) can answer, a status and a body: the image at the
\* URL, the image it was replaced with, or the error answer of its server
UrlJpg == <<"http:", "/", "/", "h", "/", "a", ".", "jpg">>
UrlPng == <<"http:", "/", "/", "h", "/", "b", ".", "PNG">>
UrlComma == <<"http:", "/", "/", "h", "/", "c", ",", "1", ".", "jpg">>
UrlQuery == <<"http:", "/", "/", "h", "/", "d", ".", "jpg", "?", "v1">>
Responses(url) ==
    IF url = UrlJpg
    THEN { [status |-> 200, body |-> ImgBig], [status |-> 200, body |-> ImgSmall],
           [status |-> 404, body |-> ErrImg] }
    ELSE IF url \in {UrlComma, UrlQuery}
    THEN { [status |-> 200, body |-> ImgBig] }
    ELSE { [status |-> 200, body |-> ImgMid], [status |-> 404, body |-> ErrPage] }
AllResponses == Responses(UrlJpg) \cup Responses(UrlPng)

\* the queue messages of the model: "<contentKey>,<sourceURL>"
BodyJpg == <<"k1", ",">> \o UrlJpg
BodyPng == <<"k2", ",">> \o UrlPng
BodyComma == <<"k3", ",">> \o UrlComma
BodyQuery == <<"k4", ",">> \o UrlQuery
Bodies == {BodyJpg, BodyPng, BodyComma, BodyQuery}

\* os.environ["DANBOORU_SERVERS"].split(",")
Servers == <<"s1", "s2">>

\* the list of size targets with the first one repeated
widths_repeated == <<150, 150>>

\* the size targets, the larger first
widths_reversed == <<850, 150>>

widths == <<150, 850>>

\* ------------------------------------------------------------------------
\* Image operations
\* ------------------------------------------------------------------------
Channels(mode) ==
    CASE mode = "RGBA" -> 4
      [] mode = "RGB" -> 3
      [] OTHER -> 1

\* Image.convert("RGB"): three channels, an alpha band is dropped
ConvertRGB(img) ==
    [img EXCEPT !.mode = "RGB",
                !.alpha = IF img.alpha = "present" THEN "dropped" ELSE img.alpha]

pure_pil_alpha_to_color_v2(image) ==
    IF Channels(image.mode) < 4 THEN image
    ELSE [image EXCEPT !.mode = "RGB", !.alpha = "composited"]

\* JPEGImage(file.name) and Image.open(file.name) raise on what they cannot read
JpegDecodes(file) == file.kind = "jpeg"
PilDecodes(file) == file.kind \in {"jpeg", "png", "gif"}

\* the encoded file written for an image resized to fit n
Resized(img, n) ==
    LET d == scale_dim(img.w, img.h, n)
    IN  [img EXCEPT !.kind = "jpeg", !.w = d[1], !.h = d[2], !.stage = "resized",
                    !.bytes = 4]

\* resize_jpg with the bound test off by one
resize_jpg_inclusive(file, n) ==
    IF file.w >= n \/ file.h >= n THEN Resized(file, n) ELSE NoFile

\* resize_jpg and resize_general return the resized file or None (NoFile)
resize_jpg(file, n) ==
    IF file.w > n \/ file.h > n THEN Resized(file, n) ELSE NoFile

resize_general(file, n) ==
    LET rgb == IF file.mode # "RGB" THEN ConvertRGB(file) ELSE file
        img == pure_pil_alpha_to_color_v2(rgb)
    IN  IF img.w > n \/ img.h > n THEN Resized(img, n) ELSE NoFile

\* generate, first half: the branch on the extension of the URL
ExtJpg == <<".", "jpg">>
ExtGeneral == {<<".", "png">>, <<".", "gif">>}
UrlExt(url) == Lower(splitext(url))

\* a generate whose second branch takes every extension that is not .jpg
ResampleRaisesElse(url, original) ==
    IF UrlExt(url) = ExtJpg THEN ~JpegDecodes(original) ELSE ~PilDecodes(original)

\* generate raises when no branch binds resample or when decoding raises
ResampleRaises(url, original) ==
    LET ext == UrlExt(url)
    IN  IF ext = ExtJpg THEN ~JpegDecodes(original)
        ELSE IF ext \in ExtGeneral THEN ~PilDecodes(original)
        ELSE TRUE

Resample(url, original, n) ==
    IF UrlExt(url) = ExtJpg THEN resize_jpg(original, n)
    ELSE resize_general(original, n)

\* the length of what guetzli writes is a function of its input, shorter
\* than the input for some images and longer for others: here longer for
\* the images of the alpha source, shorter for the rest
OptimizedLengths(resample) ==
    IF resample.src = "mid" THEN {resample.bytes + 1} ELSE {resample.bytes - 1}

\* a generate that keeps the shorter of the resized file and the optimizer's
\* output
GuetzliKeepsShorter(resample, exit) ==
    IF exit = 0
    THEN { IF b > resample.bytes THEN resample
           ELSE [resample EXCEPT !.stage = "optimized", !.bytes = b] :
               b \in OptimizedLengths(resample) }
    ELSE { [NoFile EXCEPT !.stage = "unwritten"] }

\* what the file "optimized" holds after call(["guetzli", ...]) returned:
\* the recompressed image on exit status 0, of whatever length; on another
\* status what a failed run left in the fresh temporary file, which is no
\* image of the source
GuetzliOutputs(resample, exit) ==
    IF exit = 0
    THEN { [resample EXCEPT !.stage = "optimized", !.bytes = b] :
               b \in OptimizedLengths(resample) }
    ELSE { [NoFile EXCEPT !.stage = "unwritten"] }

\* what the log says of the optimizer's output
Wrote(resample, optimized) ==
    IF optimized.bytes > resample.bytes THEN "longer" ELSE optimized.stage

\* generate returns None or (n, optimized)
None == [size |-> 0, file |-> NoFile]

\* ------------------------------------------------------------------------
\* State
\* ------------------------------------------------------------------------
VARIABLES
    queue,          \* bodies of the messages the SQS queue still holds
    delivered,      \* per body, how many times it was handed out by a receive
    fs,             \* per server, the files under its preview directory
    s3,             \* the objects of bucket "danbooru"
    pc,             \* where process_queue stands
    loop,           \* process_queue: loop
    messages,       \* process_queue: response["Messages"]
    mi,             \* process_queue: position of "message" in messages
    receipt_handle, \* process_queue: receipt_handle
    md5,            \* process_queue: md5
    image_url,      \* process_queue: image_url
    original,       \* download_and_generate: what the file original holds
    wi,             \* download_and_generate: position of map in widths
    resample,       \* generate: what the file resample holds
    paths,          \* the list generate's results are collected in, then paths
    pj,             \* process_queue: position of (size, file) in paths
    si,             \* upload: position of map in servers
    log,            \* what happened so far for the message being processed
    before,         \* the destinations of the job's key when its processing began
    done,           \* the last processing of a job that went through all uploads
    temps,          \* the temporary files the process holds open
    sd_args,        \* scale_dim on its own: the arguments (w, h, max_size)
    sd_result       \* scale_dim on its own: the returned tuple

world == <<queue, delivered, fs, s3>>
locals == <<loop, messages, mi, receipt_handle, md5, image_url, original, wi,
            resample, paths, pj, si>>
sd_vars == <<sd_args, sd_result>>
hist == <<before, done>>
vars == <<queue, delivered, fs, s3, pc, loop, messages, mi, receipt_handle, md5,
          image_url, original, wi, resample, paths, pj, si, log, before, done,
          temps, sd_args, sd_result>>

NoHandle == <<<<>>, 0>>

\* ------------------------------------------------------------------------
\* Destinations
\* ------------------------------------------------------------------------
\* a preview path that names the delivery
PreviewPathOfDelivery(key) ==
    <<"/var/www/danbooru2/shared/data/preview/">> \o key
        \o <<"-", ToString(receipt_handle[2]), ".jpg">>

PreviewPath(key) == <<"/var/www/danbooru2/shared/data/preview/">> \o key \o <<".jpg">>
SampleName(key) == <<"sample-">> \o key \o <<".jpg">>
S3Key(remote_name) == <<"sample/">> \o remote_name

\* a store maps paths to file contents; Put overwrites
Put(store, path, file) == [p \in DOMAIN store \cup {path} |->
                              IF p = path THEN file ELSE store[p]]
EmptyStore == [p \in {} |-> NoFile]

\* log entries are <<event, number, who, result>>
Ev(e, n, who, res) == <<e, n, who, res>>

Has(e, n, who, res) == \E i \in DOMAIN log : log[i] = Ev(e, n, who, res)
HasEv(e, n) == \E i \in DOMAIN log : log[i][1] = e /\ log[i][2] = n
Count(e, n) == Cardinality({i \in DOMAIN log : log[i][1] = e /\ log[i][2] = n})
ServerSet == {Servers[i] : i \in 1..Len(Servers)}
Targets == {widths[i] : i \in 1..Len(widths)}

\* what the log tells of a size target
Absent(n) == Has("generate", n, "resize", "absent")
Produced(n) == Has("generate", n, "resize", "variant")
ScpDone(n) == \A s \in ServerSet : \E i \in DOMAIN log :
                  log[i][1] = "scp" /\ log[i][2] = n /\ log[i][3] = s
ScpFailed(n) == \E s \in ServerSet : Has("scp", n, s, "failed")
PutDone(n) == Has("put", n, "s3", "ok")
Uploaded(n) == IF n = 150 THEN ScpDone(n) ELSE PutDone(n)
Terminal(n) == Absent(n) \/ Uploaded(n)
DeleteIssued == \E i \in DOMAIN log : log[i][1] = "delete"
Deleted == \E i \in DOMAIN log : log[i][1] = "delete" /\ log[i][4] = "ok"
JobStarted == log # <<>> /\ log[1][1] = "job"

\* the destinations that belong to a content key
Mentions(path, key) ==
    \E i \in 1..(Len(path) - Len(key) + 1) : SubSeq(path, i, i + Len(key) - 1) = key
Restrict(store, key) ==
    [p \in {q \in DOMAIN store : Mentions(q, key)} |-> store[p]]
Slice(key) == [fs |-> [s \in DOMAIN fs |-> Restrict(fs[s], key)],
               s3 |-> Restrict(s3, key)]
NoSlice == [fs |-> [s \in ServerSet |-> EmptyStore], s3 |-> EmptyStore]

\* what a processing observed of the outside: the fetch, the resize results,
\* the optimizer's exits and outputs, the copies and the put
Sig(l) == SelectSeq(l, LAMBDA e : e[1] \in {"fetch", "generate", "optimize", "scp", "put"})
NoRun == [key |-> <<>>, sig |-> <<>>, slice |-> NoSlice]

\* the processing in the log went through its loop over paths
WentThrough == JobStarted /\ \A n \in Targets : Terminal(n)
LastDone ==
    IF WentThrough THEN [key |-> md5, sig |-> Sig(log), slice |-> Slice(md5)]
    ELSE done

\* a temporary file of the job in hand: tempfile.NamedTemporaryFile at lines
\* 84 (original), 109 and 136 (output, returned as resample), 182 (optimized)
Temp(name, n) == <<name, n, md5>>

\* process_queue binds paths to the new list (line 268): the files of the
\* list it held before lose their last reference and are closed, all but
\* the one the loop variable "file" still names when the new list is empty.
\* The output file of a resize that returned None is closed the same way,
\* when resize_jpg or resize_general returns.
Rebound(open, kept) ==
    LET old == {t \in open : t[3] # md5}
        last == {t \in old : \A u \in old : u[2] <= t[2]}
    IN  IF kept = <<>> THEN (open \ old) \cup last ELSE open \ old

\* the state of a process that has just entered process_queue
FreshProcess ==
    /\ pc = "receive"
    /\ loop = TRUE
    /\ messages = <<>>
    /\ mi = 0
    /\ receipt_handle = NoHandle
    /\ md5 = <<>>
    /\ image_url = <<>>
    /\ original = NoFile
    /\ wi = 0
    /\ resample = NoFile
    /\ paths = <<>>
    /\ pj = 0
    /\ si = 0
    /\ log = <<>>

Init ==
    /\ queue \in {{b} : b \in Bodies}
    /\ delivered = [b \in Bodies |-> 0]
    /\ fs = [s \in {Servers[i] : i \in 1..Len(Servers)} |-> EmptyStore]
    /\ s3 = EmptyStore
    /\ FreshProcess
    /\ before = NoSlice
    /\ done = NoRun
    /\ temps = {}
    /\ sd_args = <<>>
    /\ sd_result = <<>>

\* ------------------------------------------------------------------------
\* process_queue
\* ------------------------------------------------------------------------
\* the lists of distinct bodies one receive may return
Batches(S) ==
    { b \in UNION { [1..k -> S] : k \in 1..MaxBatch } :
        \A i, j \in DOMAIN b : i # j => b[i] # b[j] }

\* sqs.receive_message returns messages
ReceiveMessages ==
    /\ pc = "receive" /\ loop
    /\ \E batch \in Batches({b \in queue : delivered[b] < MaxDeliveries}) :
        /\ delivered' = [b \in DOMAIN delivered |->
                            IF \E i \in DOMAIN batch : batch[i] = b
                            THEN delivered[b] + 1 ELSE delivered[b]]
        /\ messages' = [i \in DOMAIN batch |->
                            [Body |-> batch[i],
                             ReceiptHandle |-> <<batch[i], delivered[batch[i]] + 1>>]]
    /\ mi' = 1
    /\ pc' = "parse"
    /\ UNCHANGED <<queue, fs, s3, loop, receipt_handle, md5, image_url, original,
                   wi, resample, paths, pj, si, log, sd_vars, hist, temps>>

\* sqs.receive_message returns a response without "Messages"
ReceiveEmpty ==
    /\ pc = "receive" /\ loop
    /\ messages' = <<>>
    /\ pc' = "sleep"
    /\ UNCHANGED <<world, loop, mi, receipt_handle, md5, image_url, original, wi,
                   resample, paths, pj, si, log, sd_vars, hist, temps>>

\* sqs.receive_message raises: nothing in process_queue catches it
ReceiveRaises ==
    /\ pc = "receive" /\ loop
    /\ pc' = "crashed"
    /\ UNCHANGED <<world, locals, log, sd_vars, hist, temps>>

\* receipt_handle = message["ReceiptHandle"]; md5, image_url = Body.split(",")
ParseBody ==
    /\ pc = "parse"
    /\ LET message == messages[mi]
           fields == Split(message.Body, ",")
       IN  /\ receipt_handle' = message.ReceiptHandle
           /\ IF Len(fields) = 2
              THEN /\ md5' = fields[1]
                   /\ image_url' = fields[2]
                   /\ pc' = "download"
              ELSE /\ pc' = "crashed"
                   /\ UNCHANGED <<md5, image_url>>
           /\ log' = <<Ev("job", Len(fields), "sqs", "received")>>
           /\ before' = IF Len(fields) = 2 THEN Slice(fields[1]) ELSE NoSlice
    /\ done' = LastDone
    /\ UNCHANGED <<world, loop, messages, mi, original, wi, resample, paths, pj, si,
                   sd_vars, temps>>

\* download_image: the body of the response is written to the file original,
\* whatever the status of the response
DownloadImage ==
    /\ pc = "download"
    /\ \E resp \in Responses(image_url) :
        /\ original' = resp.body
        /\ log' = Append(log, Ev("fetch", resp.status, resp.body.src, "response"))
    /\ wi' = 1
    /\ paths' = <<>>
    /\ resample' = NoFile
    /\ pc' = "resize"
    /\ temps' = temps \cup {Temp("original", 0)}
    /\ UNCHANGED <<world, loop, messages, mi, receipt_handle, md5, image_url, pj, si,
                   sd_vars, hist>>

\* requests.get or iter_content raises
DownloadRaises ==
    /\ pc = "download"
    /\ log' = Append(log, Ev("fetch", 0, "", "raised"))
    /\ pc' = "crashed"
    /\ temps' = temps \cup {Temp("original", 0)}
    /\ UNCHANGED <<world, locals, sd_vars, hist>>

\* generate returned r for widths[wi]: map goes on with the next width, or
\* download_and_generate closes original and returns, process_queue filters
\* the None entries out and starts its loop over paths
Collect(r) ==
    LET all == Append(paths, r)
        kept == SelectSeq(all, LAMBDA e : e # None)
        open == IF r = None THEN temps
                ELSE (temps \ {Temp("resample", r.size)})
                         \cup {Temp("optimized", r.size)}
    IN  IF wi < Len(widths)
        THEN /\ paths' = all
             /\ wi' = wi + 1
             /\ pc' = "resize"
             /\ temps' = open
             /\ UNCHANGED <<original, pj, si>>
        ELSE /\ paths' = kept
             /\ original' = NoFile
             /\ temps' = Rebound(open \ {Temp("original", 0)}, kept)
             /\ pj' = 1
             /\ si' = 1
             /\ pc' = IF kept = <<>> THEN "delete" ELSE "upload"
             /\ UNCHANGED wi

\* generate, up to the test of resample: resize_jpg or resize_general
ResizeStep ==
    /\ pc = "resize"
    /\ LET n == widths[wi]
           out == Resample(image_url, original, n)
       IN  IF ResampleRaises(image_url, original)
           THEN /\ log' = Append(log, Ev("generate", n, "resize", "raised"))
                /\ pc' = "crashed"
                /\ temps' = IF UrlExt(image_url) \in {ExtJpg} \cup ExtGeneral
                             THEN temps \cup {Temp("resample", n)} ELSE temps
                /\ UNCHANGED <<original, wi, resample, paths, pj, si>>
           ELSE IF out # NoFile
           THEN /\ resample' = out
                /\ log' = Append(log, Ev("generate", n, "resize", "variant"))
                /\ pc' = "optimize"
                /\ temps' = temps \cup {Temp("resample", n)}
                /\ UNCHANGED <<original, wi, paths, pj, si>>
           ELSE /\ log' = Append(log, Ev("generate", n, "resize", "absent"))
                /\ Collect(None)
                /\ UNCHANGED resample
    /\ UNCHANGED <<world, loop, messages, mi, receipt_handle, md5, image_url, sd_vars, hist>>

\* generate, resample is not None: call guetzli, close resample,
\* return (n, optimized); the exit status call returns is not looked at
OptimizeStep ==
    /\ pc = "optimize"
    /\ \E exit \in {0, 1} : \E optimized \in GuetzliOutputs(resample, exit) :
        /\ log' = Append(log, Ev("optimize", widths[wi], Wrote(resample, optimized),
                                 IF exit = 0 THEN "exit0" ELSE "exit1"))
        /\ Collect([size |-> widths[wi], file |-> optimized])
    /\ resample' = NoFile
    /\ UNCHANGED <<world, loop, messages, mi, receipt_handle, md5, image_url, sd_vars, hist>>

\* the loop over paths left after its first round
NextPathOnce == pj' = pj /\ pc' = "delete"

\* the loop over paths moves to the next (size, file), or ends
NextPath ==
    IF pj < Len(paths)
    THEN pj' = pj + 1 /\ pc' = "upload"
    ELSE pj' = pj /\ pc' = "delete"

\* upload: one scp per server, in the order of the list; the exit status of
\* scp is not looked at
UploadScp ==
    /\ pc = "upload"
    /\ paths[pj].size = 150
    /\ \E ok \in BOOLEAN :
        /\ fs' = IF ok
                 THEN [fs EXCEPT ![Servers[si]] =
                          Put(@, PreviewPath(md5), paths[pj].file)]
                 ELSE fs
        /\ log' = Append(log, Ev("scp", paths[pj].size, Servers[si],
                                 IF ok THEN "ok" ELSE "failed"))
    /\ IF si < Len(Servers)
       THEN si' = si + 1 /\ UNCHANGED <<pc, pj>>
       ELSE si' = 1 /\ NextPath
    /\ UNCHANGED <<queue, delivered, s3, loop, messages, mi, receipt_handle, md5,
                   image_url, original, wi, resample, paths, sd_vars, hist, temps>>

\* upload_s3: put_object succeeds
UploadS3 ==
    /\ pc = "upload"
    /\ paths[pj].size # 150
    /\ s3' = Put(s3, S3Key(SampleName(md5)), paths[pj].file)
    /\ log' = Append(log, Ev("put", paths[pj].size, "s3", "ok"))
    /\ NextPath
    /\ UNCHANGED <<queue, delivered, fs, loop, messages, mi, receipt_handle, md5,
                   image_url, original, wi, resample, paths, si, sd_vars, hist, temps>>

\* upload_s3: put_object raises
UploadS3Raises ==
    /\ pc = "upload"
    /\ paths[pj].size # 150
    /\ log' = Append(log, Ev("put", paths[pj].size, "s3", "raised"))
    /\ pc' = "crashed"
    /\ UNCHANGED <<world, locals, sd_vars, hist, temps>>

\* a delete_message that removes every message of the batch received
delete_message_of_batch(q, handle) ==
    q \ {messages[i].Body : i \in DOMAIN messages}

\* what sqs.delete_message(ReceiptHandle=handle) leaves in the queue
delete_message(q, handle) == q \ {handle[1]}

\* sqs.delete_message succeeds; the loop over messages goes on or ends
DeleteMessage ==
    /\ pc = "delete"
    /\ queue' = delete_message(queue, receipt_handle)
    /\ log' = Append(log, Ev("delete", receipt_handle[2], "sqs", "ok"))
    /\ IF mi < Len(messages)
       THEN mi' = mi + 1 /\ pc' = "parse"
       ELSE mi' = mi /\ pc' = "sleep"
    /\ UNCHANGED <<delivered, fs, s3, loop, messages, receipt_handle, md5, image_url,
                   original, wi, resample, paths, pj, si, sd_vars, hist, temps>>

\* sqs.delete_message raises
DeleteRaises ==
    /\ pc = "delete"
    /\ log' = Append(log, Ev("delete", receipt_handle[2], "sqs", "raised"))
    /\ pc' = "crashed"
    /\ UNCHANGED <<world, locals, sd_vars, hist, temps>>

\* time.sleep(1), then the test of the while loop
Sleep ==
    /\ pc = "sleep"
    /\ pc' = IF loop THEN "receive" ELSE "stopped"
    /\ UNCHANGED <<world, locals, log, sd_vars, hist, temps>>

\* the statements of the try block, where SIGINT raises KeyboardInterrupt
InTry == {"receive", "parse", "download", "resize", "optimize", "upload",
          "delete", "sleep"}

\* except KeyboardInterrupt: loop = False; the while loop then ends
KeyboardInterrupt ==
    /\ pc \in InTry
    /\ loop' = FALSE
    /\ pc' = "stopped"
    /\ log' = Append(log, Ev("interrupt", 0, pc, "caught"))
    /\ UNCHANGED <<world, messages, mi, receipt_handle, md5, image_url, original, wi,
                   resample, paths, pj, si, sd_vars, hist, temps>>

\* the script is started again after it ended or died
Restart ==
    /\ pc \in {"stopped", "crashed"}
    /\ pc' = "receive"
    /\ loop' = TRUE
    /\ messages' = <<>>
    /\ mi' = 0
    /\ receipt_handle' = NoHandle
    /\ md5' = <<>>
    /\ image_url' = <<>>
    /\ original' = NoFile
    /\ wi' = 0
    /\ resample' = NoFile
    /\ paths' = <<>>
    /\ pj' = 0
    /\ si' = 0
    /\ log' = <<>>
    /\ before' = NoSlice
    /\ done' = LastDone
    /\ temps' = {}
    /\ UNCHANGED <<world, sd_vars>>

Next ==
    \/ ReceiveMessages
    \/ ReceiveEmpty
    \/ ReceiveRaises
    \/ ParseBody
    \/ DownloadImage
    \/ DownloadRaises
    \/ ResizeStep
    \/ OptimizeStep
    \/ UploadScp
    \/ UploadS3
    \/ UploadS3Raises
    \/ DeleteMessage
    \/ DeleteRaises
    \/ Sleep
    \/ KeyboardInterrupt
    \/ Restart

Spec == Init /\ [][Next]_vars

\* ------------------------------------------------------------------------
\* scale_dim on its own, over all arguments up to the bounds
\* ------------------------------------------------------------------------
InitScale ==
    /\ queue = {}
    /\ delivered = [b \in Bodies |-> 0]
    /\ fs = [s \in {Servers[i] : i \in 1..Len(Servers)} |-> EmptyStore]
    /\ s3 = EmptyStore
    /\ FreshProcess
    /\ before = NoSlice
    /\ done = NoRun
    /\ temps = {}
    /\ sd_args \in (1..MaxDim) \X (1..MaxDim) \X (1..MaxN)
    /\ sd_result = <<>>

CallScaleDim ==
    /\ sd_result = <<>>
    /\ sd_result' = scale_dim(sd_args[1], sd_args[2], sd_args[3])
    /\ UNCHANGED <<world, pc, locals, log, sd_args, hist, temps>>

NextScale == CallScaleDim

SpecScale == InitScale /\ [][NextScale]_vars

\* ------------------------------------------------------------------------
\* one run of the script on a queue that holds several messages, so that a
\* receive returns a batch
\* ------------------------------------------------------------------------
InitBatch ==
    /\ queue = {BodyJpg, BodyPng, BodyQuery}
    /\ delivered = [b \in Bodies |-> 0]
    /\ fs = [s \in {Servers[i] : i \in 1..Len(Servers)} |-> EmptyStore]
    /\ s3 = EmptyStore
    /\ FreshProcess
    /\ before = NoSlice
    /\ done = NoRun
    /\ temps = {}
    /\ sd_args = <<>>
    /\ sd_result = <<>>

NextBatch ==
    \/ ReceiveMessages
    \/ ReceiveEmpty
    \/ ReceiveRaises
    \/ ParseBody
    \/ DownloadImage
    \/ DownloadRaises
    \/ ResizeStep
    \/ OptimizeStep
    \/ UploadScp
    \/ UploadS3
    \/ UploadS3Raises
    \/ DeleteMessage
    \/ DeleteRaises
    \/ Sleep
    \/ KeyboardInterrupt

SpecBatch == InitBatch /\ [][NextBatch]_vars

\* ------------------------------------------------------------------------
\* Properties
\* ------------------------------------------------------------------------
\* the body the fetch of the log answered with
BodyOf(src) == (CHOOSE r \in AllResponses : r.body.src = src).body
Fetched == {i \in DOMAIN log : log[i][1] = "fetch" /\ log[i][4] = "response"}
Fits(img, n) == img.w <= n /\ img.h <= n
ContentKey(body) == Split(body, ",")[1]

FetchFailed ==
    \E i \in DOMAIN log : /\ log[i][1] = "fetch"
                          /\ (log[i][4] = "raised" \/ ~(log[i][2] \in 200..299))
GenerateFailed == \E n \in Targets : Has("generate", n, "resize", "raised")
UploadFailed == ScpFailed(150) \/ \E n \in Targets : Has("put", n, "s3", "raised")
C2_NoDeleteAfterFailure ==
    (FetchFailed \/ GenerateFailed \/ UploadFailed) => (pc # "delete" /\ ~DeleteIssued)

\* C3: when the copy of the 150 variant to a server fails, the job fails:
\* the 850 target is not uploaded and the message is not deleted.
C3_ScpFailureFailsJob ==
    ScpFailed(150) => (~HasEv("put", 850) /\ pc # "delete" /\ ~DeleteIssued)

\* C4: when guetzli exits with a non-zero status for a variant, the variant
\* generate returns is the encoded file resize_jpg or resize_general wrote.
C4_FallbackToPreOptimization ==
    \A i \in Fetched : \A n \in Targets :
        (\E k \in DOMAIN log : /\ log[k][1] = "optimize" /\ log[k][2] = n
                                /\ log[k][4] = "exit1") =>
            \A j \in DOMAIN paths :
                paths[j].size = n =>
                    paths[j].file = Resample(image_url, BodyOf(log[i][3]), n)

\* C5: the interrupt stops the loop only between jobs: when the loop has
\* stopped, no job is left begun and without its delete_message.
C5_NoJobAborted ==
    pc = "stopped" => ~(JobStarted /\ ~DeleteIssued)

\* C6: for a size target n that the fetched image fits (w <= n and h <= n),
\* generation produces no variant, guetzli is not run and nothing is copied
\* or put for n; once generation is over its result for n is None.
C6_FittingImageSkipped ==
    \A i \in Fetched : \A n \in Targets :
        Fits(BodyOf(log[i][3]), n) =>
            /\ ~Produced(n)
            /\ ~HasEv("optimize", n)
            /\ ~HasEv("scp", n)
            /\ ~HasEv("put", n)
            /\ \A j \in DOMAIN paths : paths[j].size # n
            /\ (pc \in {"upload", "delete"} \/ DeleteIssued) => Absent(n)

\* an image of height exactly 150 went through: both targets skipped, the
\* message deleted and nothing written
C6_Witness ==
    /\ \E i \in Fetched : log[i][3] = "small"
    /\ Absent(150) /\ Absent(850) /\ Deleted
    /\ \A s \in ServerSet : DOMAIN fs[s] = {}

\* C7: a fetch answered with a status outside 2xx raises in download_image:
\* no file holds the body of the answer, nothing is generated or uploaded
\* from it and the job fails.
C7_Non2xxFails ==
    \A i \in Fetched :
        ~(log[i][2] \in 200..299) =>
            /\ pc = "crashed"
            /\ original = NoFile
            /\ \A n \in Targets : ~HasEv("generate", n) /\ ~HasEv("scp", n)
                                  /\ ~HasEv("put", n)
            /\ ~DeleteIssued

\* C8: for positive w, h and n, scale_dim(w, h, n) returns dimensions whose
\* larger one is at most n.
C8_ScaledWithinBound ==
    sd_result # <<>> =>
        (sd_result[1] <= sd_args[3] /\ sd_result[2] <= sd_args[3])

\* a downscale whose larger side comes out one below n by float truncation
C8_Witness ==
    /\ sd_result # <<>>
    /\ sd_args[1] > sd_args[3]
    /\ sd_args[1] >= sd_args[2]
    /\ sd_result[1] = sd_args[3] - 1

\* C9 as claimed: after a second processing of a job the destinations of its
\* key are what the first processing left, with the same content.
C9_SecondRunSameContent ==
    (pc = "delete" /\ done # NoRun /\ done.key = md5 /\ before = done.slice) =>
        Slice(md5) = done.slice

\* C9 as amended: the destinations only ever hold the paths preview/<key>.jpg
\* and the object keys sample/sample-<key>.jpg of the jobs' content keys,
\* whatever the number of deliveries; and a second processing that observes
\* the same fetch, optimizer and copy results as the first leaves the
\* destinations of the key exactly as the first left them.
KeysExpected ==
    /\ \A s \in ServerSet :
        DOMAIN fs[s] \subseteq {PreviewPath(ContentKey(b)) : b \in Bodies}
    /\ DOMAIN s3 \subseteq {S3Key(SampleName(ContentKey(b))) : b \in Bodies}
C9_IdempotentOnSameOutcomes ==
    /\ KeysExpected
    /\ (pc = "delete" /\ done # NoRun /\ done.key = md5 /\ before = done.slice
            /\ done.sig = Sig(log))
        => Slice(md5) = before

\* a second delivery uploaded both variants over those of the first
C9_Witness ==
    /\ pc = "delete" /\ done # NoRun /\ done.key = md5 /\ before = done.slice
    /\ done.sig = Sig(log)
    /\ receipt_handle[2] = 2
    /\ Uploaded(150) /\ ~ScpFailed(150) /\ Uploaded(850)

\* C10: in one delivery each size target gets one outcome, a variant or None,
\* and at most one artifact is uploaded for it: one copy per server for 150,
\* one put for 850, and only of a variant that was produced.
C10_OneOutcomePerTarget ==
    \A n \in Targets :
        /\ Count("generate", n) <= 1
        /\ Count("optimize", n) <= 1
        /\ Count("put", n) <= 1
        /\ \A s \in ServerSet :
            Cardinality({i \in DOMAIN log : log[i][1] = "scp" /\ log[i][2] = n
                                            /\ log[i][3] = s}) <= 1
        /\ ~(HasEv("scp", n) /\ HasEv("put", n))
        /\ (HasEv("scp", n) \/ HasEv("put", n)) => Produced(n)
        /\ Fetched # {} => Cardinality({j \in DOMAIN paths : paths[j].size = n}) <= 1
        /\ (pc \in {"upload", "delete"} \/ DeleteIssued) =>
              /\ Count("generate", n) = 1
              /\ Produced(n) \/ Absent(n)
              /\ ~(Produced(n) /\ Absent(n))

\* a delivery with one variant (150) uploaded and one None (850)
C10_Witness ==
    /\ pc = "delete"
    /\ Produced(150) /\ Uploaded(150) /\ Absent(850)

\* ---------------------------------------------------------------------
\* C11: every temporary file of a variant, the resized file and the
\* optimizer's output file, is released by the time the processing of its
\* job ends: when the loop is back at sleeping or polling, the process
\* holds no resized or optimized temporary file open.
\* generate closes resample (line 184) and returns optimized open, "the
\* caller is responsible for closing the file"; process_queue never closes
\* it, so the files stay open while paths holds them.
VariantTemps == {t \in temps : t[1] \in {"resample", "optimized"}}

C11_VariantTempsReleased ==
    pc \in {"sleep", "receive"} => VariantTemps = {}

\* ---------------------------------------------------------------------
\* C12: when guetzli exits with status 0 for a variant, the file generate
\* returns for that target, and the file that is uploaded for it, is the
\* optimizer's output, also when that output is longer than the resized
\* file it was made from: no lengths are compared.
OptimizedOf(n) ==
    {j \in DOMAIN paths : paths[j].size = n}

DestinationHolds(n, file) ==
    /\ \A s \in ServerSet :
           (n = 150 /\ Has("scp", n, s, "ok")) => fs[s][PreviewPath(md5)] = file
    /\ (n # 150 /\ PutDone(n)) => s3[S3Key(SampleName(md5))] = file

C12_OptimizerOutputKept ==
    \A i \in Fetched : \A n \in Targets :
        (\E k \in DOMAIN log : /\ log[k][1] = "optimize" /\ log[k][2] = n
                                /\ log[k][4] = "exit0") =>
            LET made == Resample(image_url, BodyOf(log[i][3]), n)
            IN  \A j \in OptimizedOf(n) :
                    /\ paths[j].file.stage = "optimized"
                    /\ [paths[j].file EXCEPT !.stage = "resized", !.bytes = made.bytes]
                           = made
                    /\ Has("optimize", n, "longer", "exit0") =>
                           paths[j].file.bytes > made.bytes
                    /\ DestinationHolds(n, paths[j].file)

C12_Witness ==
    /\ Has("optimize", 150, "longer", "exit0")
    /\ \A s \in ServerSet : Has("scp", 150, s, "ok")
    /\ Deleted
    /\ \E i \in Fetched :
           \A s \in ServerSet :
               fs[s][PreviewPath(md5)].bytes
                   > Resample(image_url, BodyOf(log[i][3]), 150).bytes

\* ---------------------------------------------------------------------
\* C13 as stated: each size target runs Generator, Optimizer and Uploader
\* to completion before the next target is started, so every copy of the
\* 150 variant comes before generation for 850.
IsGen(k) == log[k][1] \in {"generate", "optimize"}
IsUp(k) == log[k][1] \in {"scp", "put"}

C13_UploadBeforeNextGenerate ==
    \A a, b \in DOMAIN log :
        (IsUp(a) /\ log[a][2] = 150 /\ IsGen(b) /\ log[b][2] = 850) => a < b

\* C13, amended: generation runs over the targets in the order 150 then
\* 850, the resize of a target before its optimization and both before the
\* next target; the uploads start only when generation has ended for every
\* target, and run in the same order 150 then 850.
C13_GenerateAllThenUpload ==
    /\ \A a, b \in DOMAIN log :
        /\ (IsGen(a) /\ IsUp(b)) => a < b
        /\ (IsGen(a) /\ IsGen(b) /\ log[a][2] = 150 /\ log[b][2] = 850) => a < b
        /\ (IsUp(a) /\ IsUp(b) /\ log[a][2] = 150 /\ log[b][2] = 850) => a < b
        /\ (log[a][1] = "generate" /\ log[b][1] = "optimize"
                /\ log[a][2] = log[b][2]) => a < b
    /\ (\E b \in DOMAIN log : IsUp(b)) =>
           \A n \in Targets : Absent(n) \/ (Produced(n) /\ HasEv("optimize", n))

C13_Witness ==
    /\ Produced(150) /\ Produced(850)
    /\ ScpDone(150) /\ PutDone(850)
    /\ \E a, b \in DOMAIN log :
           /\ log[a][1] = "optimize" /\ log[a][2] = 850
           /\ log[b][1] = "scp" /\ log[b][2] = 150
           /\ a < b

\* ---------------------------------------------------------------------
\* C14: on the general path (.png, .gif) an image that has an alpha channel
\* is composited onto white before the bound test and the resize: the
\* resized file and the variant made of it hold the composited image, not
\* one whose alpha band convert("RGB") dropped.
C14_AlphaComposited ==
    \A i \in Fetched :
        (UrlExt(image_url) \in ExtGeneral /\ BodyOf(log[i][3]).alpha = "present") =>
            /\ resample # NoFile => resample.alpha = "composited"
            /\ \A j \in DOMAIN paths :
                   paths[j].file.stage = "optimized" =>
                       paths[j].file.alpha = "composited"

\* ---------------------------------------------------------------------
\* C15: for all positive w, h and n, scale_dim(w, h, n) is
\* (floor(n*w / max(w, h)), floor(n*h / max(w, h))), so the larger axis
\* comes out as n exactly.
MaxOf(a, b) == IF a >= b THEN a ELSE b

C15_ExactFloor ==
    sd_result # <<>> =>
        LET w == sd_args[1]
            h == sd_args[2]
            n == sd_args[3]
            m == MaxOf(w, h)
        IN  /\ sd_result = <<(n * w) \div m, (n * h) \div m>>
            /\ MaxOf(sd_result[1], sd_result[2]) = n

\* ---------------------------------------------------------------------
\* C18: whenever an image is resized (w > n or h > n), both dimensions
\* handed to resize are at least 1: scale_dim gives no zero dimension.
C18_NoZeroDimension ==
    (sd_result # <<>> /\ (sd_args[1] > sd_args[3] \/ sd_args[2] > sd_args[3])) =>
        (sd_result[1] >= 1 /\ sd_result[2] >= 1)

\* ---------------------------------------------------------------------
\* C16: a message whose body does not split into exactly two fields at the
\* commas makes the unpacking of line 267 raise: nothing is fetched, copied
\* or put for it, delete_message is not called, and the message stays in
\* the queue.
Malformed(body) == Cardinality({i \in DOMAIN body : body[i] = ","}) # 1

NoKeyOf(key) ==
    /\ \A s \in ServerSet : \A q \in DOMAIN fs[s] : ~Mentions(q, key)
    /\ \A q \in DOMAIN s3 : ~Mentions(q, key)

C16_MalformedBodyNotProcessed ==
    /\ \A b \in Bodies :
           (Malformed(b) /\ delivered[b] > 0) =>
               (b \in queue /\ NoKeyOf(ContentKey(b)))
    /\ (JobStarted /\ Malformed(receipt_handle[1])) =>
           /\ pc = "crashed"
           /\ \A k \in DOMAIN log : log[k][1] \notin {"fetch", "generate", "optimize",
                                                       "scp", "put", "delete"}

C16_Witness ==
    /\ JobStarted /\ receipt_handle = <<BodyComma, 2>>
    /\ Len(Split(BodyComma, ",")) = 3
    /\ pc = "crashed"
    /\ BodyComma \in queue

\* ---------------------------------------------------------------------
\* C17: a job whose URL has an extension (the lower-cased text from the last
\* dot on, a query string included) other than .jpg, .png and .gif fails in
\* generate for the first size target, in every delivery: no variant is
\* uploaded and its message is not deleted.
KnownExt(url) == UrlExt(url) \in {ExtJpg} \cup ExtGeneral

UrlOf(body) == Split(body, ",")[2]

C17_UnknownExtensionFails ==
    /\ \A b \in Bodies :
           (~Malformed(b) /\ ~KnownExt(UrlOf(b)) /\ delivered[b] > 0) =>
               (b \in queue /\ NoKeyOf(ContentKey(b)))
    /\ (JobStarted /\ ~Malformed(receipt_handle[1]) /\ ~KnownExt(image_url)) =>
           /\ \A k \in DOMAIN log :
                  /\ log[k][1] \notin {"optimize", "scp", "put", "delete"}
                  /\ log[k][1] = "generate" =>
                         (log[k] = Ev("generate", widths[1], "resize", "raised")
                             /\ pc = "crashed")
           /\ pc \notin {"optimize", "upload", "delete", "sleep"}

C17_Witness ==
    /\ receipt_handle = <<BodyQuery, 2>>
    /\ UrlExt(image_url) = <<".", "jpg", "?", "v1">>
    /\ Has("fetch", 200, "big", "response")
    /\ Has("generate", 150, "resize", "raised")
    /\ pc = "crashed"
    /\ BodyQuery \in queue

\* ---------------------------------------------------------------------
\* C19: the messages one receive returned are processed and deleted in the
\* order of the list, one at a time: while a message is in hand all earlier
\* ones of the batch are deleted and it and all later ones are still in the
\* queue; a message is out of the queue only if every earlier one of the
\* batch is; and when the processing of a message fails (it raised, or was
\* interrupted, before its delete_message returned) that message and all
\* later ones of the batch are left in the queue.
InJob == {"parse", "download", "resize", "optimize", "upload", "delete"}
Gone(i) == messages[i].Body \notin queue
FailedInJob ==
    /\ pc \in {"crashed", "stopped"}
    /\ JobStarted /\ ~Deleted
    /\ receipt_handle = messages[mi].ReceiptHandle

C19_BatchInOrder ==
    /\ \A i, j \in DOMAIN messages : (i < j /\ Gone(j)) => Gone(i)
    /\ pc \in InJob =>
           \A j \in DOMAIN messages : Gone(j) <=> j < mi
    /\ (pc \in InJob \ {"parse"}) => receipt_handle = messages[mi].ReceiptHandle
    /\ FailedInJob =>
           \A j \in DOMAIN messages : Gone(j) <=> j < mi

\* the second message of a batch failed after the first was deleted
C19_Witness ==
    /\ Len(messages) >= 2
    /\ mi = 2
    /\ FailedInJob
    /\ pc = "crashed"
    /\ Gone(1) /\ ~Gone(2)

====
